---- MODULE Spec2Model ----
(***************************************************************************)
(* A model of the Readability session of READI-LREC22                      *)
(* (library/readability/readability.py): the constructor's content-shape  *)
(* detection, compile(), score(name), the dedicated accessors, scores(),   *)
(* stats() and corpus_info(), as one state machine over a single session   *)
(* object.                                                                 *)
(*                                                                         *)
(* Python values are modelled as follows.                                  *)
(*   token            a TLA+ string; len(token) is Len(token)              *)
(*   sentence         a sequence of tokens                                 *)
(*   text             a sequence of sentences                              *)
(*   dict             a sequence of entries [label, kind, texts] in key    *)
(*                    insertion order, labels pairwise distinct            *)
(*   attribute        the variable of the same name, present on the        *)
(*                    object iff its name is in attrs (hasattr)            *)
(*   float            an exact fraction <<numerator, denominator>> in      *)
(*                    lowest terms with a positive denominator             *)
(*   exception        a result of kind "raise" carrying the exception name *)
(***************************************************************************)
EXTENDS Integers, Sequences, FiniteSets, TLC

VARIABLES
    pc,                 \* "start" before __init__, "ready" once it returned, "failed" once it raised
    arg,                \* the content argument handed to __init__
    nlp_name,           \* the nlp_name argument: self.nlp is loaded only for "spacy_sm"
    attrs,              \* names of the attributes the object holds (hasattr)
    content_type,       \* self.content_type
    content,            \* self.content
    classes,            \* self.classes
    statistics,         \* self.statistics
    corpus_statistics,  \* self.corpus_statistics
    warned,             \* whether __init__ printed the short-text WARNING
    compiled,           \* history: compile() has returned self at least once
    ret,                \* the last call and what it returned or raised
    div_text,           \* the text argument of the diversity functions
    div_mode,           \* the mode argument of the diversity functions
    div_ret,            \* the last call of a diversity function and what it returned
    div_sentinels       \* history: the values returned so far in place of a ratio

\* The session object and its calls.
session == <<pc, arg, nlp_name, attrs, content_type, content, classes,
             statistics, corpus_statistics, warned, compiled, ret>>

\* The calls of the diversity functions, which use no session.
divvars == <<div_text, div_mode, div_ret, div_sentinels>>

vars == <<session, divvars>>

(***************************************************************************)
(* Bounds of the model.                                                    *)
(***************************************************************************)
\* sentences of a single-text input
MaxSentences == 2
\* texts of a corpus input, over all of its classes
MaxTexts == 3

(***************************************************************************)
(* The inputs the model draws from.                                        *)
(***************************************************************************)
\* Sentences the texts are built from; <<>> is an empty sentence list [].
SentencePool ==
    { <<>>,
      <<"Le", "chat", "mange">>,
      <<"Il", "est", "content">>,
      <<"animal", "elephant">> }

\* Texts a corpus is built from: no sentence, one empty sentence, one and two sentences.
CorpusTextPool ==
    { <<>>,
      << <<>> >>,
      << <<"Le", "chat", "mange">> >>,
      << <<"Il", "est", "content">>, <<"animal", "elephant">> >> }

ClassLabels == {"A", "B"}

FormulaNames == {"gfi", "ari", "fre", "fkgl", "smog", "rel"}

\* A name score() does not know, besides the six it does.
ScoreNames == FormulaNames \cup {"lix"}

SeqsUpTo(S, n) == UNION { [1..k -> S] : k \in 0..n }

\* A sentence of n tokens.
LongSentence(n) == [i \in 1..n |-> "Le"]

\* Texts of one sentence whose word counts lie on both sides of the limits of
\* the short-text warning: 11 * 11 > 100, and 100 and 101 words.
LongTexts == { <<LongSentence(n)>> : n \in {11, 100, 101} }

\* What the NLP engine returns for a string: sentences, none of them empty.
SegmentedTexts == SeqsUpTo(SentencePool \ {<<>>}, MaxSentences) \cup LongTexts

\* A list holding at least one list: sentences, possibly empty ones.
NestedTexts == SeqsUpTo(SentencePool, MaxSentences) \ {<<>>}

RECURSIVE Flatten(_)
Flatten(text) ==
    IF text = <<>> THEN <<>> ELSE Head(text) \o Flatten(Tail(text))

\* Flat token lists, the empty list [] among them.
FlatTokenLists == { Flatten(t) : t \in SegmentedTexts }

NoText == <<>>
NoTokens == <<>>
NoEntries == <<>>

StrInput(t) == [shape |-> "str", text |-> t, tokens |-> NoTokens, entries |-> NoEntries]
NestedInput(t) == [shape |-> "nested", text |-> t, tokens |-> NoTokens, entries |-> NoEntries]
FlatInput(toks) == [shape |-> "flat", text |-> NoText, tokens |-> toks, entries |-> NoEntries]
DictInput(es) == [shape |-> "dict", text |-> NoText, tokens |-> NoTokens, entries |-> es]
\* A list holding the sentences t followed by the bare strings strs.
MixedInput(t, strs) == [shape |-> "mixed", text |-> t, tokens |-> strs, entries |-> NoEntries]
\* A value that is neither iterable nor a string (an int, None).
IntInput == [shape |-> "int", text |-> NoText, tokens |-> NoTokens, entries |-> NoEntries]
\* An iterable of strings that is no list (a tuple of tokens).
TupleInput == [shape |-> "tuple", text |-> NoText, tokens |-> <<"Le", "chat">>, entries |-> NoEntries]

\* What iterating over a string yields: its characters, each a string.
Chars(word) ==
    CASE word = "chat" -> <<"c", "h", "a", "t">>
      [] word = "Le" -> <<"L", "e">>
      [] OTHER -> <<word>>

\* The value kinds of a dict entry:
\*   "texts"     a list of texts (lists of lists of tokens), texts holds it
\*   "str"       a string
\*   "strlist"   a non-empty list of strings
\*   "sentlist"  a non-empty list of non-empty lists of strings (one text, not a list of texts)
\* For the last three kinds texts holds what the loops over the value see:
\* iterating over a string yields its characters, themselves strings.
Entry(l, k, ts) == [label |-> l, kind |-> k, texts |-> ts]

WellFormedEntries(l, n) == { Entry(l, "texts", ts) : ts \in SeqsUpTo(CorpusTextPool, n) }

\* The values "a", ["Le"] and [["Le", "chat"]].
IllFormedEntries(l) ==
    { Entry(l, "str", << << <<"a">> >> >>),
      Entry(l, "strlist", << << <<"L">>, <<"e">> >> >>),
      Entry(l, "sentlist", << <<Chars("Le"), Chars("chat")>> >>) }

\* Mappings of one or two classes, the value of either key well-formed or not
\* (an ill-formed second value comes after a first class of at most one text).
DictInputs ==
    { DictInput(<<>>) }
    \cup { DictInput(<<e>>) : e \in UNION { WellFormedEntries(l, MaxTexts) \cup IllFormedEntries(l) : l \in ClassLabels } }
    \cup UNION { UNION { UNION { { DictInput(<<e1, e2>>) : e2 \in IllFormedEntries(l2) } :
                                 e1 \in WellFormedEntries(l1, 1) } :
                         l2 \in ClassLabels \ {l1} } :
                 l1 \in ClassLabels }
    \cup UNION { UNION { UNION { { DictInput(<<e1, e2>>) :
                                    e2 \in WellFormedEntries(l2, MaxTexts - Len(e1.texts)) } :
                                 e1 \in WellFormedEntries(l1, MaxTexts) } :
                         l2 \in ClassLabels \ {l1} } :
                 l1 \in ClassLabels }

\* Lists of sentences that end with one bare string.
MixedInputs ==
    { MixedInput(t, <<"chat">>) : t \in SeqsUpTo(SentencePool, MaxSentences - 1) \ {<<>>} }

Inputs ==
    { StrInput(t) : t \in SegmentedTexts }
    \cup { NestedInput(t) : t \in NestedTexts }
    \cup MixedInputs
    \cup { FlatInput(toks) : toks \in FlatTokenLists }
    \cup DictInputs
    \cup { IntInput, TupleInput }

(***************************************************************************)
(* Helpers over sequences.                                                 *)
(***************************************************************************)
\* sum(s), the sequence halved at each step.
RECURSIVE SumSeq(_)
SumSeq(s) ==
    IF s = <<>> THEN 0
    ELSE IF Len(s) = 1 THEN s[1]
    ELSE LET half == Len(s) \div 2
         IN SumSeq(SubSeq(s, 1, half)) + SumSeq(SubSeq(s, half + 1, Len(s)))

Abs(n) == IF n < 0 THEN -n ELSE n

RECURSIVE GCD(_, _)
GCD(a, b) == IF b = 0 THEN a ELSE GCD(b, a % b)

\* The number n/d, d > 0, in lowest terms.
Frac(n, d) == LET g == GCD(Abs(n), d) IN <<n \div g, d \div g>>

(***************************************************************************)
(* utils.syllablesplit: the Syllable Counter, a pure function of one token *)
(* estimating its number of syllables. Its estimate for the tokens of the  *)
(* model is their number of vowel groups; a token outside the vocabulary   *)
(* (a single character) counts one.                                        *)
(***************************************************************************)
syllablesplit(word) ==
    CASE word \in {"Le", "chat", "Il", "est"} -> 1
      [] word \in {"mange", "content"} -> 2
      [] word \in {"animal", "elephant"} -> 3
      [] OTHER -> 1

(***************************************************************************)
(* The Statistics attribute bag, with the six fields compile() sets.       *)
(***************************************************************************)
Statistics(w, lw, s, c, syl, psyl) ==
    [totalWords |-> w, totalLongWords |-> lw, totalSentences |-> s,
     totalCharacters |-> c, totalSyllables |-> syl, nbPolysyllables |-> psyl]

NoStatistics == Statistics(0, 0, 0, 0, 0, 0)

\* Mutant: the long-word test lets a token of exactly 6 characters through.
IsLongWord_AtLeastSix(token) == Len(token) >= 6

IsLongWord(token) == Len(token) > 6

\* Mutant: the polysyllable test asks for more than 3 syllables.
IsPolysyllable_MoreThanThree(word) == syllablesplit(word) > 3

IsPolysyllable(word) == syllablesplit(word) >= 3

\* One pass of compile()'s loop body over a sentence, added to the running totals.
CompileSentence(acc, sentence) ==
    Statistics(
        acc.totalWords + Len(sentence),
        acc.totalLongWords + Cardinality({ i \in DOMAIN sentence : IsLongWord(sentence[i]) }),
        acc.totalSentences,
        acc.totalCharacters + SumSeq([i \in DOMAIN sentence |-> Len(sentence[i])]),
        acc.totalSyllables + SumSeq([i \in DOMAIN sentence |-> syllablesplit(sentence[i])]),
        acc.nbPolysyllables + Cardinality({ i \in DOMAIN sentence : IsPolysyllable(sentence[i]) }))

\* for sentence in text: ..., from the totals acc.
RECURSIVE CompileLoop(_, _)
CompileLoop(acc, text) ==
    IF text = <<>> THEN acc
    ELSE CompileLoop(CompileSentence(acc, Head(text)), Tail(text))

\* Mutant: the totals are not reset, they go on from the snapshot already held.
CompileText_Accumulate(text) ==
    CompileLoop(IF "statistics" \in attrs
                THEN [statistics EXCEPT !.totalSentences = Len(text)]
                ELSE Statistics(0, 0, Len(text), 0, 0, 0), text)

\* Mutant: totalSentences starts at 0 like the other totals.
CompileText_NoSentenceCount(text) ==
    CompileLoop(Statistics(0, 0, 0, 0, 0, 0), text)

\* compile() on one text: the totals start at 0, totalSentences at len(text).
CompileText(text) ==
    CompileLoop(Statistics(0, 0, Len(text), 0, 0, 0), text)

\* A compile() that stores no snapshot for a text without sentences.
CompileCorpus_SkipsEmptyTexts(entries, levels) ==
    [i \in DOMAIN levels |->
        LET level == levels[i]
            e == CHOOSE x \in { entries[j] : j \in DOMAIN entries } : x.label = level
            HasSentences(text) == text # <<>>
            kept == SelectSeq(e.texts, HasSentences)
        IN [label |-> level,
            snapshots |-> [k \in DOMAIN kept |-> CompileText(kept[k])]]]

\* compile() on a corpus: stats[level] holds one Statistics per text, in order.
CompileCorpus(entries, levels) ==
    [i \in DOMAIN levels |->
        LET level == levels[i]
            e == CHOOSE x \in { entries[j] : j \in DOMAIN entries } : x.label = level
        IN [label |-> level,
            snapshots |-> [k \in DOMAIN e.texts |-> CompileText(e.texts[k])]]]

(***************************************************************************)
(* The Statistics Aggregator the Score Engine invokes when it is given a   *)
(* text and no snapshot (spec 4.2): each field stated over the tokens of   *)
(* the text.                                                               *)
(***************************************************************************)
aggregate(text) ==
    LET toks == Flatten(text)
    IN Statistics(
        SumSeq([i \in DOMAIN text |-> Len(text[i])]),
        Cardinality({ i \in DOMAIN toks : Len(toks[i]) > 6 }),
        Len(text),
        SumSeq([i \in DOMAIN toks |-> Len(toks[i])]),
        SumSeq([i \in DOMAIN toks |-> syllablesplit(toks[i])]),
        Cardinality({ i \in DOMAIN toks : syllablesplit(toks[i]) >= 3 }))

(***************************************************************************)
(* The Score Engine, common_scores (spec 4.3). A result is either a value  *)
(* or the failure UndefinedFormula, raised when S = 0 or W = 0.            *)
(***************************************************************************)
Value(q) == [ok |-> TRUE, val |-> q]
Undefined == [ok |-> FALSE, val |-> <<0, 1>>]

\* 0.4 * ((W/S) + 100 * (LW/W))
GFI_formula(st) ==
    LET W == st.totalWords S == st.totalSentences LW == st.totalLongWords
    IN Frac(2 * (W * W + 100 * LW * S), 5 * S * W)

\* 4.71 * (C/W) + 0.5 * (W/S) - 21.43
ARI_formula(st) ==
    LET W == st.totalWords S == st.totalSentences C == st.totalCharacters
    IN Frac(471 * C * S + 50 * W * W - 2143 * W * S, 100 * W * S)

\* 206.835 - 1.015 * (W/S) - 84.6 * (SYL/W)
FRE_formula(st) ==
    LET W == st.totalWords S == st.totalSentences SYL == st.totalSyllables
    IN Frac(206835 * W * S - 1015 * W * W - 84600 * SYL * S, 1000 * W * S)

\* 0.39 * (W/S) + 11.8 * (SYL/W) - 15.59
FKGL_formula(st) ==
    LET W == st.totalWords S == st.totalSentences SYL == st.totalSyllables
    IN Frac(39 * W * W + 1180 * SYL * S - 1559 * W * S, 100 * W * S)

\* 3.1291 + 1.0430 * sqrt(30 * (PSYL/S)): a strictly increasing function of the
\* radicand 30 * PSYL / S, which stands for the score.
SMOG_formula(st) ==
    LET S == st.totalSentences PSYL == st.nbPolysyllables
    IN Frac(30 * PSYL, S)

\* A linear combination of W/S and SYL/W like FRE, with the constants of the
\* French reading-ease adaptation: 207 - 1.015 * (W/S) - 73.6 * (SYL/W)
REL_formula(st) ==
    LET W == st.totalWords S == st.totalSentences SYL == st.totalSyllables
    IN Frac(207000 * W * S - 1015 * W * W - 73600 * SYL * S, 1000 * W * S)

Formula(name, st) ==
    CASE name = "gfi" -> GFI_formula(st)
      [] name = "ari" -> ARI_formula(st)
      [] name = "fre" -> FRE_formula(st)
      [] name = "fkgl" -> FKGL_formula(st)
      [] name = "smog" -> SMOG_formula(st)
      [] name = "rel" -> REL_formula(st)

\* func(text, statistics): the snapshot is used directly.
ScoreStats(name, st) ==
    IF st.totalSentences = 0 \/ st.totalWords = 0 THEN Undefined
    ELSE Value(Formula(name, st))

\* func(text): the engine aggregates the text itself.
ScoreText(name, text) == ScoreStats(name, aggregate(text))

(***************************************************************************)
(* What a call returns or raises.                                          *)
(*   kind    "none" (no call yet), "scalar", "mapping", "int", "self",     *)
(*           "None", "frame" (a pandas DataFrame) or "raise"               *)
(*   mapping a dict as a sequence of [label, scores] in insertion order    *)
(*   out     what stats() printed about the statistics; for compile(),     *)
(*           whether the snapshot it stored replaced an earlier one        *)
(*   engine  what the call handed to the Score Engine: "snapshot" (a text  *)
(*           or None, with a Statistics), "text" (a text alone) or "none"  *)
(*           (the engine was not called)                                   *)
(***************************************************************************)
NoRet ==
    [op |-> "none", name |-> "-", kind |-> "none", exc |-> "-",
     scalar |-> <<0, 1>>, mapping |-> <<>>, int |-> 0, out |-> "-",
     engine |-> "none"]

Call(op, name) == [NoRet EXCEPT !.op = op, !.name = name]
Raise(op, name, e) == [Call(op, name) EXCEPT !.kind = "raise", !.exc = e]
ReturnScalar(op, name, q) == [Call(op, name) EXCEPT !.kind = "scalar", !.scalar = q]
ReturnMapping(op, name, m) == [Call(op, name) EXCEPT !.kind = "mapping", !.mapping = m]
ReturnInt(op, name, n) == [Call(op, name) EXCEPT !.kind = "int", !.int = n]
ReturnSelf(op, note) == [Call(op, "-") EXCEPT !.kind = "self", !.out = note]
ReturnNone(op, printed) == [Call(op, "-") EXCEPT !.kind = "None", !.out = printed]
ReturnFrame(op) == [Call(op, "-") EXCEPT !.kind = "frame"]

\* The engine's result as the caller sees it: no try/except surrounds the call.
FromEngine(op, name, r) ==
    IF r.ok THEN ReturnScalar(op, name, r.val)
    ELSE Raise(op, name, "UndefinedFormula")

\* The result r of a call that handed `what` to the engine.
Via(what, r) == [r EXCEPT !.engine = what]

\* d[label] on a dict held as a sequence of entries.
GetItem(d, l) == CHOOSE x \in { d[j] : j \in DOMAIN d } : x.label = l

Keys(d) == [j \in DOMAIN d |-> d[j].label]

(***************************************************************************)
(* Readability.__init__                                                    *)
(***************************************************************************)
\* self.nlp is None unless the spacy model was asked for; None(content) raises.
NlpLoaded == nlp_name = "spacy_sm"

\* nb_words of the string branch: the sum of the sentence lengths.
StrWordCount(text) == SumSeq([i \in DOMAIN text |-> Len(text[i])])

\* nb_words of the token-list branch: len(sentence) is added once per token.
FlatWordCount(text) == SumSeq([i \in DOMAIN text |-> Len(text[i]) * Len(text[i])])

ShortTextWarning(nb_words) == nb_words < 101

InitFails(e) ==
    /\ pc' = "failed"
    /\ ret' = Raise("__init__", "-", e)

InitReturns ==
    /\ pc' = "ready"
    /\ ret' = [Call("__init__", "-") EXCEPT !.kind = "None"]

\* isinstance(content, str)
InitStr ==
    /\ arg.shape = "str"
    /\ content_type' = "text"
    /\ IF NlpLoaded
       THEN /\ content' = arg.text
            /\ attrs' = {"content_type", "content"}
            /\ warned' = ShortTextWarning(StrWordCount(arg.text))
            /\ InitReturns
       ELSE /\ attrs' = {"content_type"}
            /\ InitFails("TypeError")
            /\ UNCHANGED <<content, warned>>
    /\ UNCHANGED classes

\* The list passed as content, element by element; a bare string among the
\* elements is held as the characters that iterating over it yields.
ListOf(a) ==
    IF a.shape = "mixed"
    THEN a.text \o [i \in DOMAIN a.tokens |-> Chars(a.tokens[i])]
    ELSE a.text

\* any(isinstance(el, list) for el in content)
InitNested ==
    /\ arg.shape \in {"nested", "mixed"}
    /\ content_type' = "text"
    /\ content' = ListOf(arg)
    /\ attrs' = {"content_type", "content"}
    /\ InitReturns
    /\ UNCHANGED <<classes, warned>>

\* isinstance(content, list): the tokens are joined and segmented again
InitFlat ==
    /\ arg.shape = "flat"
    /\ content_type' = "text"
    /\ IF NlpLoaded
       THEN \E t \in SegmentedTexts :
                /\ Flatten(t) = arg.tokens
                /\ content' = t
                /\ attrs' = {"content_type", "content"}
                /\ warned' = ShortTextWarning(FlatWordCount(t))
                /\ InitReturns
       ELSE /\ attrs' = {"content_type"}
            /\ InitFails("TypeError")
            /\ UNCHANGED <<content, warned>>
    /\ UNCHANGED classes

\* `for el in content` on a value that cannot be iterated
InitNotIterable ==
    /\ arg.shape = "int"
    /\ InitFails("TypeError")
    /\ UNCHANGED <<attrs, content_type, content, classes, warned>>

\* isinstance(content[k], list), isinstance(content[k][0], list) and
\* isinstance(content[k][0][0], list), by the kind of the value.
ValueIsList(e) == e.kind \in {"texts", "strlist", "sentlist"}
FirstItemIsList(e) == e.kind \in {"texts", "sentlist"}
FirstItemOfFirstItemIsList(e) == e.kind = "texts"

\* The nested ifs of the corpus branch, on the first key's value only.
IsCorpus(d) ==
    /\ ValueIsList(d[1])
    /\ FirstItemIsList(d[1])
    /\ FirstItemOfFirstItemIsList(d[1])

\* The indexing of the corpus branch raises IndexError.
CorpusIndexError(d) ==
    \/ d = <<>>
    \/ /\ d[1].kind = "texts"
       /\ \/ d[1].texts = <<>>
          \/ d[1].texts[1] = <<>>

\* else: the input is neither a string nor a list
InitOther ==
    /\ arg.shape \in {"dict", "tuple"}
    /\ IF arg.shape = "dict" /\ CorpusIndexError(arg.entries)
       THEN /\ InitFails("IndexError")
            /\ UNCHANGED <<attrs, content_type, content, classes>>
       ELSE IF arg.shape = "dict" /\ IsCorpus(arg.entries)
       THEN /\ content_type' = "corpus"
            /\ content' = arg.entries
            /\ classes' = Keys(arg.entries)
            /\ attrs' = {"content_type", "content", "classes"}
            /\ InitReturns
       ELSE /\ InitReturns
            /\ UNCHANGED <<attrs, content_type, content, classes>>
    /\ UNCHANGED warned

Construct ==
    /\ pc = "start"
    /\ \/ InitStr
       \/ InitNested
       \/ InitFlat
       \/ InitNotIterable
       \/ InitOther
    /\ UNCHANGED <<arg, nlp_name, statistics, corpus_statistics, compiled, divvars>>

(***************************************************************************)
(* Readability.score and the dedicated accessors                           *)
(***************************************************************************)
HasAttr(a) == a \in attrs

\* Mutant: a failure of the engine is turned into the accessor's return -1.
TextScore_MinusOne(op, name) ==
    LET r == IF HasAttr("statistics") THEN ScoreStats(name, statistics)
             ELSE ScoreText(name, content)
    IN IF r.ok THEN ReturnScalar(op, name, r.val) ELSE ReturnInt(op, name, -1)

\* The text branch: the snapshot is handed over iff the object holds one.
TextScore(op, name) ==
    IF HasAttr("statistics")
    THEN Via("snapshot", FromEngine(op, name, ScoreStats(name, statistics)))
    ELSE Via("text", FromEngine(op, name, ScoreText(name, content)))

\* Mutant: the scores of a class are inserted at the front, not appended.
LevelResults_Reversed(name, level) ==
    LET texts == GetItem(content, level).texts
        n == Len(texts)
    IN IF HasAttr("corpus_statistics")
       THEN LET snaps == GetItem(corpus_statistics, level).snapshots
            IN [k \in DOMAIN snaps |-> ScoreStats(name, snaps[Len(snaps) + 1 - k])]
       ELSE [k \in DOMAIN texts |-> ScoreText(name, texts[n + 1 - k])]

\* scores[level] of the corpus branch, before any failure is looked at.
LevelResults(name, level) ==
    IF HasAttr("corpus_statistics")
    THEN LET snaps == GetItem(corpus_statistics, level).snapshots
         IN [k \in DOMAIN snaps |-> ScoreStats(name, snaps[k])]
    ELSE LET texts == GetItem(content, level).texts
         IN [k \in DOMAIN texts |-> ScoreText(name, texts[k])]

\* The corpus branch: one list of scores per class of self.classes, in order;
\* the first engine failure leaves the loops as an exception.
BulkScore(op, name) ==
    LET results == [i \in DOMAIN classes |->
                        [label |-> classes[i], scores |-> LevelResults(name, classes[i])]]
        failed == \E i \in DOMAIN results : \E k \in DOMAIN results[i].scores :
                        ~results[i].scores[k].ok
        what == IF \A i \in DOMAIN results : results[i].scores = <<>> THEN "none"
                ELSE IF HasAttr("corpus_statistics") THEN "snapshot" ELSE "text"
    IN IF failed THEN Via(what, Raise(op, name, "UndefinedFormula"))
       ELSE Via(what, ReturnMapping(op, name,
                [i \in DOMAIN results |->
                    [label |-> results[i].label,
                     scores |-> [k \in DOMAIN results[i].scores |-> results[i].scores[k].val]]]))

\* score(name): func stays unbound for a name outside the six.
score(name) ==
    IF ~HasAttr("content_type") THEN Raise("score", name, "AttributeError")
    ELSE IF name \notin FormulaNames THEN Raise("score", name, "UnboundLocalError")
    ELSE IF content_type = "text" THEN TextScore("score", name)
    ELSE IF content_type = "corpus" THEN BulkScore("score", name)
    ELSE ReturnInt("score", name, -1)

gfi ==
    IF ~HasAttr("content_type") THEN Raise("gfi", "gfi", "AttributeError")
    ELSE IF content_type = "text" THEN TextScore("gfi", "gfi")
    ELSE IF content_type = "corpus" THEN BulkScore("gfi", "gfi")
    ELSE ReturnInt("gfi", "gfi", -1)

\* ari, fre, fkgl, smog, rel: the corpus branch prints a note and falls to return -1.
TextOnlyAccessor(name) ==
    IF ~HasAttr("content_type") THEN Raise(name, name, "AttributeError")
    ELSE IF content_type = "text" THEN TextScore(name, name)
    ELSE ReturnInt(name, name, -1)

ari == TextOnlyAccessor("ari")
fre == TextOnlyAccessor("fre")
fkgl == TextOnlyAccessor("fkgl")
smog == TextOnlyAccessor("smog")
rel == TextOnlyAccessor("rel")

\* common_scores.traditional_scores(corpus): every formula over every text.
traditional_scores(corpus) ==
    IF \E i \in DOMAIN corpus : \E k \in DOMAIN corpus[i].texts : \E f \in FormulaNames :
            ~ScoreText(f, corpus[i].texts[k]).ok
    THEN Raise("scores", "-", "UndefinedFormula")
    ELSE ReturnFrame("scores")

\* scores(): the corpus is handed over alone, whether or not it was compiled.
scores ==
    IF ~HasAttr("content_type") THEN Raise("scores", "-", "AttributeError")
    ELSE IF content_type = "corpus" THEN Via("text", traditional_scores(content))
    ELSE ReturnInt("scores", "-", -1)

\* stats(): prints the held statistics, or that compile() is needed.
\* A stats() that reports the statistics of the content whether or not
\* compile() has stored them.
stats_ReportsOnDemand ==
    IF HasAttr("statistics") \/ (HasAttr("content_type") /\ content_type = "text")
    THEN ReturnNone("stats", "statistics")
    ELSE IF HasAttr("corpus_statistics") \/ HasAttr("content_type")
    THEN ReturnNone("stats", "corpus_statistics")
    ELSE ReturnNone("stats", "apply compile first")

stats ==
    IF HasAttr("statistics") THEN ReturnNone("stats", "statistics")
    ELSE IF HasAttr("corpus_statistics") THEN ReturnNone("stats", "corpus_statistics")
    ELSE ReturnNone("stats", "apply compile first")

\* corpus_info(): len_phr/temp_nbr_ph divides by the length of each text and
\* len_phr_moy/nb_txt by the number of texts of each class.
corpus_info ==
    IF ~HasAttr("content_type") THEN Raise("corpus_info", "-", "AttributeError")
    ELSE IF content_type # "corpus" THEN ReturnInt("corpus_info", "-", 0)
    ELSE IF \E i \in DOMAIN classes :
                LET texts == GetItem(content, classes[i]).texts
                IN texts = <<>> \/ \E k \in DOMAIN texts : texts[k] = <<>>
    THEN Raise("corpus_info", "-", "ZeroDivisionError")
    ELSE ReturnFrame("corpus_info")

\* A call that only reads the object.
Reads(r) ==
    /\ pc = "ready"
    /\ ret' = r
    /\ UNCHANGED <<pc, arg, nlp_name, attrs, content_type, content, classes,
                   statistics, corpus_statistics, warned, compiled, divvars>>

Score == \E name \in ScoreNames : Reads(score(name))
Gfi == Reads(gfi)
Ari == Reads(ari)
Fre == Reads(fre)
Fkgl == Reads(fkgl)
Smog == Reads(smog)
Rel == Reads(rel)
Scores == Reads(scores)
\* Mutant: stats() on a text without a snapshot computes one and keeps it.
Stats_ComputesOnDemand ==
    /\ pc = "ready"
    /\ ret' = stats
    /\ IF attrs = {"content_type", "content"} /\ content_type = "text"
       THEN /\ statistics' = CompileText(content)
            /\ attrs' = attrs \cup {"statistics"}
       ELSE UNCHANGED <<attrs, statistics>>
    /\ UNCHANGED <<pc, arg, nlp_name, content_type, content, classes,
                   corpus_statistics, warned, compiled, divvars>>

Stats == Reads(stats)

\* A corpus_info() that builds its column list by levels.append('total').
CorpusInfo_AppendsTotal ==
    /\ pc = "ready"
    /\ ret' = corpus_info
    /\ classes' = IF HasAttr("content_type") /\ content_type = "corpus"
                     /\ \A i \in DOMAIN classes : classes[i] # "total"
                  THEN Append(classes, "total")
                  ELSE classes
    /\ UNCHANGED <<pc, arg, nlp_name, attrs, content_type, content,
                   statistics, corpus_statistics, warned, compiled, divvars>>

CorpusInfo == Reads(corpus_info)

(***************************************************************************)
(* Readability.compile                                                     *)
(***************************************************************************)
\* Setting an attribute creates it or replaces the value it held.
SnapshotNote(a) == IF HasAttr(a) THEN "replaced" ELSE "created"

Compile ==
    /\ pc = "ready"
    /\ IF ~HasAttr("content_type")
       THEN /\ ret' = Raise("compile", "-", "AttributeError")
            /\ UNCHANGED <<attrs, statistics, corpus_statistics, compiled>>
       ELSE IF content_type = "text"
       THEN /\ statistics' = CompileText(content)
            /\ attrs' = attrs \cup {"statistics"}
            /\ ret' = ReturnSelf("compile", SnapshotNote("statistics"))
            /\ compiled' = TRUE
            /\ UNCHANGED corpus_statistics
       ELSE IF content_type = "corpus"
       THEN /\ corpus_statistics' = CompileCorpus(content, classes)
            /\ attrs' = attrs \cup {"corpus_statistics"}
            /\ ret' = ReturnSelf("compile", SnapshotNote("corpus_statistics"))
            /\ compiled' = TRUE
            /\ UNCHANGED statistics
       ELSE /\ ret' = ReturnInt("compile", "-", 0)
            /\ UNCHANGED <<attrs, statistics, corpus_statistics, compiled>>
    /\ UNCHANGED <<pc, arg, nlp_name, content_type, content, classes, warned, divvars>>

(***************************************************************************)
(* The diversity functions, which exist twice:                             *)
(*   readability/stats/diversity.py               suffix _stats            *)
(*   readability/readability/stats/diversity.py   suffix _readability_stats*)
(* A string is modelled by its whitespace-separated words, in order. A     *)
(* ratio n / sqrt(r) is the pair of n and the radicand r, so that the      *)
(* default mode's n / t has the radicand t * t.                            *)
(***************************************************************************)
MaxTokens == 3

DivVocabulary == {"chat", "mange", "l'", ","}

DivModes == {"None", "root", "corrected"}

\* Token lists, and lists of one or two sentences, of at most MaxTokens tokens.
DivTexts ==
    { FlatInput(toks) : toks \in SeqsUpTo(DivVocabulary, MaxTokens) }
    \cup { NestedInput(<<a>>) : a \in SeqsUpTo(DivVocabulary, MaxTokens) }
    \cup { NestedInput(<<a, b>>) : a, b \in SeqsUpTo(DivVocabulary, 1) }

\* str.translate(str.maketrans('', '', string.punctuation)) on one word.
StripPunctuation(word) ==
    CASE word = "," -> ""
      [] word = "l'" -> "l"
      [] OTHER -> word

\* The words of a string made of the given pieces, after the punctuation is
\* removed: a piece that was all punctuation leaves nothing to split off.
RECURSIVE Split(_)
Split(pieces) ==
    IF pieces = <<>> THEN <<>>
    ELSE LET w == StripPunctuation(Head(pieces))
         IN IF w = "" THEN Split(Tail(pieces)) ELSE <<w>> \o Split(Tail(pieces))

\* The tags of the NLP engine.
pos_(token) ==
    CASE token = "chat" -> "NOUN"
      [] token = "mange" -> "VERB"
      [] token = "l'" -> "DET"
      [] OTHER -> "PUNCT"

is_punct(token) == token = ","

\* utils.convert_text_to_string: the text flattened to a single string.
convert_text_to_string(text) ==
    IF text.shape = "nested" THEN Flatten(text.text) ELSE text.tokens

\* The conversion noun_token_ratio does itself in readability/stats/diversity.py.
JoinText(text) ==
    IF text.shape = "str" THEN text.tokens
    ELSE IF text.shape = "nested" THEN Flatten(text.text)
    ELSE text.tokens

RECURSIVE Nouns(_)
Nouns(doc) ==
    IF doc = <<>> THEN <<>>
    ELSE IF ~is_punct(Head(doc)) /\ pos_(Head(doc)) = "NOUN"
    THEN <<Head(doc)>> \o Nouns(Tail(doc))
    ELSE Nouns(Tail(doc))

\* len(Counter(words))
Unique(words) == Cardinality({ words[i] : i \in DOMAIN words })

NoDivRet ==
    [fn |-> "none", module |-> "none", kind |-> "none", num |-> 0, radicand |-> 1,
     nb_tokens |-> 0, warning |-> FALSE]

DivCall(fn, module, nb_tokens) ==
    [NoDivRet EXCEPT !.fn = fn, !.module = module, !.nb_tokens = nb_tokens]

\* print("WARNING : ...") ; return value
Sentinel(call, value) ==
    [call EXCEPT !.kind = "sentinel", !.num = value, !.warning = TRUE]

\* The three return statements that close each function.
Ratio(call, nb_unique, nb_tokens, mode) ==
    [call EXCEPT !.kind = "ratio", !.num = nb_unique,
                 !.radicand = IF mode = "corrected" THEN 2 * nb_tokens
                              ELSE IF mode = "root" THEN nb_tokens
                              ELSE nb_tokens * nb_tokens]

type_token_ratio_stats(text, mode) ==
    LET doc == Split(convert_text_to_string(text))
        nb_unique == Unique(doc)
        nb_tokens == Len(doc)
        call == DivCall("type_token_ratio", "readability.stats", nb_tokens)
    IN IF nb_tokens = 0 THEN Sentinel(call, -1)
       ELSE Ratio(call, nb_unique, nb_tokens, mode)

noun_token_ratio_stats(text, mode) ==
    LET nouns == Nouns(JoinText(text))
        nb_unique == Unique(nouns)
        nb_tokens == Len(nouns)
        call == DivCall("noun_token_ratio", "readability.stats", nb_tokens)
    IN IF nb_tokens = 0 THEN Sentinel(call, -1)
       ELSE Ratio(call, nb_unique, nb_tokens, mode)

type_token_ratio_readability_stats(text, mode) ==
    LET doc == Split(convert_text_to_string(text))
        nb_unique == Unique(doc)
        nb_tokens == Len(doc)
        call == DivCall("type_token_ratio", "readability.readability.stats", nb_tokens)
    IN IF nb_tokens = 0 THEN Sentinel(call, 0)
       ELSE Ratio(call, nb_unique, nb_tokens, mode)

noun_token_ratio_readability_stats(text, mode) ==
    LET nouns == Nouns(convert_text_to_string(text))
        nb_unique == Unique(nouns)
        nb_tokens == Len(nouns)
        call == DivCall("noun_token_ratio", "readability.readability.stats", nb_tokens)
    IN IF nb_tokens = 0 THEN Sentinel(call, 0)
       ELSE Ratio(call, nb_unique, nb_tokens, mode)

\* A call of a diversity function on the text at hand.
Returns(r) ==
    /\ div_ret' = r
    /\ div_sentinels' = IF r.kind = "sentinel" THEN div_sentinels \cup {r.num}
                        ELSE div_sentinels
    /\ UNCHANGED <<div_text, div_mode, session>>

TypeTokenRatioStats == Returns(type_token_ratio_stats(div_text, div_mode))
NounTokenRatioStats == Returns(noun_token_ratio_stats(div_text, div_mode))
TypeTokenRatioReadabilityStats == Returns(type_token_ratio_readability_stats(div_text, div_mode))
NounTokenRatioReadabilityStats == Returns(noun_token_ratio_readability_stats(div_text, div_mode))

\* No session is constructed.
SessionIdle ==
    /\ pc = "start"
    /\ arg = IntInput
    /\ nlp_name = "spacy_sm"
    /\ attrs = {}
    /\ content_type = "unset"
    /\ content = <<>>
    /\ classes = <<>>
    /\ statistics = NoStatistics
    /\ corpus_statistics = <<>>
    /\ warned = FALSE
    /\ compiled = FALSE
    /\ ret = NoRet

DivInit ==
    /\ SessionIdle
    /\ div_text \in DivTexts
    /\ div_mode \in DivModes
    /\ div_ret = NoDivRet
    /\ div_sentinels = {}

DivNext ==
    \/ TypeTokenRatioStats
    \/ NounTokenRatioStats
    \/ TypeTokenRatioReadabilityStats
    \/ NounTokenRatioReadabilityStats

\* No diversity function is called.
DivIdle ==
    /\ div_text = FlatInput(NoTokens)
    /\ div_mode = "None"
    /\ div_ret = NoDivRet
    /\ div_sentinels = {}

(***************************************************************************)
(* The session: one object, constructed once, then called in any order.    *)
(***************************************************************************)
Init ==
    /\ pc = "start"
    /\ arg \in Inputs
    /\ nlp_name \in {"spacy_sm", "stanza"}
    /\ nlp_name = "spacy_sm" \/ arg.shape \in {"str", "flat", "nested"}
    /\ attrs = {}
    /\ content_type = "unset"
    /\ content = <<>>
    /\ classes = <<>>
    /\ statistics = NoStatistics
    /\ corpus_statistics = <<>>
    /\ warned = FALSE
    /\ compiled = FALSE
    /\ ret = NoRet
    /\ DivIdle

Next ==
    \/ Construct
    \/ Score
    \/ Gfi
    \/ Ari
    \/ Fre
    \/ Fkgl
    \/ Smog
    \/ Rel
    \/ Scores
    \/ Compile
    \/ Stats
    \/ CorpusInfo

Spec == Init /\ [][Next]_vars

\* The diversity functions alone, called in any order on one text and mode.
SpecDiversity == DivInit /\ [][DivNext]_vars

(***************************************************************************)
(* The caller of the session, who still holds the object it handed to      *)
(* __init__ and may change it: here by pop(), on the list of sentences or  *)
(* of tokens, or on the list of texts of one class of the mapping.         *)
(* self.content = content makes the session's content that same object;    *)
(* the content built from the NLP engine's output is a new list.           *)
(***************************************************************************)
Pop(list) == SubSeq(list, 1, Len(list) - 1)

CallerMutates ==
    /\ pc = "ready"
    /\ \/ /\ arg.shape = "nested"
          /\ arg.text # <<>>
          /\ arg' = [arg EXCEPT !.text = Pop(arg.text)]
          /\ content' = Pop(arg.text)
       \/ /\ arg.shape = "flat"
          /\ arg.tokens # <<>>
          /\ arg' = [arg EXCEPT !.tokens = Pop(arg.tokens)]
          /\ UNCHANGED content
       \/ /\ arg.shape = "dict"
          /\ \E i \in DOMAIN arg.entries :
                /\ arg.entries[i].texts # <<>>
                /\ arg' = [arg EXCEPT !.entries[i].texts = Pop(arg.entries[i].texts)]
                /\ IF HasAttr("content")
                   THEN content' = [arg.entries EXCEPT ![i].texts = Pop(arg.entries[i].texts)]
                   ELSE UNCHANGED content
    /\ UNCHANGED <<pc, nlp_name, attrs, content_type, classes, statistics,
                   corpus_statistics, warned, compiled, ret, divvars>>

\* The session together with its caller.
SpecCaller == Init /\ [][Next \/ CallerMutates]_vars

(***************************************************************************)
(* Vocabulary of the properties.                                           *)
(***************************************************************************)
ScoringOps == {"score", "gfi", "ari", "fre", "fkgl", "smog", "rel"}

Ready == pc = "ready"

IsTextSession == Ready /\ HasAttr("content_type") /\ content_type = "text"

IsCorpusSession == Ready /\ HasAttr("content_type") /\ content_type = "corpus"

HasSnapshot == HasAttr("statistics") \/ HasAttr("corpus_statistics")

\* The last call was a single-formula accessor, asked for one of the six formulas.
Scored == Ready /\ ret.op \in ScoringOps /\ ret.name \in FormulaNames

\* All texts of the corpus, as <<class index, text index>> pairs.
TextIndices ==
    { p \in (DOMAIN content) \X (1..MaxTexts) : p[2] \in DOMAIN content[p[1]].texts }

TextAt(p) == content[p[1]].texts[p[2]]

\* A text without sentences or without words.
ZeroCounts(text) == text = <<>> \/ \A i \in DOMAIN text : text[i] = <<>>

TheExampleText == << <<"Le", "chat", "mange">>, <<"Il", "est", "content">> >>

(***************************************************************************)
(* C1. On a corpus session every single-formula accessor, score(name) and  *)
(* gfi(), ari(), fre(), fkgl(), smog(), rel(), returns a mapping from      *)
(* class to scores, and on a single-text session each returns one scalar.  *)
(* Calls that raise are left aside. The code returns the integer -1 from   *)
(* ari(), fre(), fkgl(), smog() and rel() on a corpus.                     *)
(***************************************************************************)
C1_AccessorsReturnByContentType ==
    (Scored /\ HasAttr("content_type") /\ ret.kind # "raise") =>
        /\ content_type = "corpus" => ret.kind = "mapping"
        /\ content_type = "text" => ret.kind = "scalar"

(***************************************************************************)
(* C2. For the same text and formula the compiled session (snapshot path)  *)
(* and the uncompiled session (on-the-fly path) return the same score: in  *)
(* either state the result of a single-text session is the engine's        *)
(* on-the-fly result for the content, and every score of a corpus mapping  *)
(* is the on-the-fly result for the text at its place; a call raises in    *)
(* one state exactly when it raises in the other.                          *)
(***************************************************************************)
C2_CompiledEqualsUncompiled ==
    Scored =>
        /\ IsTextSession =>
            /\ ret.kind \in {"scalar", "raise"}
            /\ ret.kind = "scalar" <=> ScoreText(ret.name, content).ok
            /\ ret.kind = "scalar" => ret.scalar = ScoreText(ret.name, content).val
        /\ (IsCorpusSession /\ ret.kind = "raise") =>
            \E p \in TextIndices : ~ScoreText(ret.name, TextAt(p)).ok
        /\ (IsCorpusSession /\ ret.kind = "mapping") =>
            \A i \in DOMAIN ret.mapping :
                LET texts == GetItem(content, ret.mapping[i].label).texts
                IN /\ DOMAIN ret.mapping[i].scores = DOMAIN texts
                   /\ \A k \in DOMAIN texts :
                        /\ ScoreText(ret.name, texts[k]).ok
                        /\ ret.mapping[i].scores[k] = ScoreText(ret.name, texts[k]).val

\* A compiled corpus of two classes scored through its snapshots.
C2_Witness ==
    /\ IsCorpusSession
    /\ HasAttr("corpus_statistics")
    /\ Scored
    /\ ret.kind = "mapping"
    /\ Len(ret.mapping) = 2
    /\ \E i \in DOMAIN ret.mapping : Len(ret.mapping[i].scores) = 2

(***************************************************************************)
(* C3. score(name) on a corpus, compiled or not, returns a mapping whose   *)
(* keys are the classes of the corpus, each once, where the sequence of a  *)
(* class is as long as its sequence of texts and the score at index k is   *)
(* the formula over the counts of the text at index k. (It returns unless  *)
(* the formula is undefined for one of the texts.)                         *)
(***************************************************************************)
C3_BulkScoreAligned ==
    (IsCorpusSession /\ Scored /\ ret.op = "score") =>
        IF \E p \in TextIndices : ZeroCounts(TextAt(p))
        THEN ret.kind = "raise"
        ELSE /\ ret.kind = "mapping"
             /\ Len(ret.mapping) = Len(content)
             /\ { ret.mapping[i].label : i \in DOMAIN ret.mapping }
                    = { content[j].label : j \in DOMAIN content }
             /\ Cardinality({ ret.mapping[i].label : i \in DOMAIN ret.mapping })
                    = Len(ret.mapping)
             /\ \A i \in DOMAIN ret.mapping : \A j \in DOMAIN content :
                    ret.mapping[i].label = content[j].label =>
                        /\ Len(ret.mapping[i].scores) = Len(content[j].texts)
                        /\ \A k \in DOMAIN content[j].texts :
                                ret.mapping[i].scores[k]
                                    = Formula(ret.name, aggregate(content[j].texts[k]))

\* The corpus {"A": [text1, text2], "B": [text3]} with text1 # text2, scored uncompiled.
C3_Witness ==
    /\ IsCorpusSession
    /\ ~HasSnapshot
    /\ Scored /\ ret.op = "score" /\ ret.kind = "mapping"
    /\ Len(ret.mapping) = 2
    /\ Len(ret.mapping[1].scores) = 2
    /\ Len(ret.mapping[2].scores) = 1
    /\ ret.mapping[1].scores[1] # ret.mapping[1].scores[2]

(***************************************************************************)
(* C4. A session holds a snapshot exactly when compile() has been run on   *)
(* it: whatever calls were made, a session never compiled holds none and   *)
(* a compiled session still holds one.                                     *)
(***************************************************************************)
C4_SnapshotIffCompiled ==
    /\ compiled <=> HasSnapshot
    /\ HasSnapshot => Ready

\* A compiled session after a later call that is not compile().
C4_Witness ==
    /\ compiled
    /\ HasSnapshot
    /\ ret.op = "stats"

(***************************************************************************)
(* C5. Recompiling is idempotent: compile() on a session that already      *)
(* holds a snapshot leaves the snapshot field values (for a corpus, the    *)
(* per-class sequences of snapshots) and the rest of the session state     *)
(* as they were.                                                           *)
(***************************************************************************)
C5_RecompileIdempotent ==
    [][(HasSnapshot /\ ret'.op = "compile") =>
            /\ statistics' = statistics
            /\ corpus_statistics' = corpus_statistics
            /\ attrs' = attrs
            /\ content' = content
            /\ content_type' = content_type
            /\ classes' = classes]_vars

\* compile() has run a second time on a text with words.
C5_Witness ==
    /\ ret.op = "compile"
    /\ ret.out = "replaced"
    /\ HasAttr("statistics")
    /\ statistics.totalWords > 0

(***************************************************************************)
(* C6. The snapshot compile() holds for a text has total words = sum of    *)
(* the sentence lengths, long words = number of tokens longer than 6,      *)
(* sentences = number of sentences, characters = sum of the token lengths, *)
(* syllables = sum of the syllable estimates, polysyllables = number of    *)
(* tokens with an estimate >= 3; the long-word and polysyllable counts     *)
(* never exceed the word count.                                            *)
(***************************************************************************)
SnapshotOf(st, text) ==
    LET toks == Flatten(text)
    IN /\ st.totalWords = SumSeq([i \in DOMAIN text |-> Len(text[i])])
       /\ st.totalLongWords = Cardinality({ i \in DOMAIN toks : Len(toks[i]) > 6 })
       /\ st.totalSentences = Len(text)
       /\ st.totalCharacters = SumSeq([i \in DOMAIN toks |-> Len(toks[i])])
       /\ st.totalSyllables = SumSeq([i \in DOMAIN toks |-> syllablesplit(toks[i])])
       /\ st.nbPolysyllables = Cardinality({ i \in DOMAIN toks : syllablesplit(toks[i]) >= 3 })
       /\ st.totalLongWords <= st.totalWords
       /\ st.nbPolysyllables <= st.totalWords

C6_SnapshotFields ==
    /\ HasAttr("statistics") => SnapshotOf(statistics, content)
    /\ HasAttr("corpus_statistics") =>
            \A i \in DOMAIN corpus_statistics :
                LET texts == GetItem(content, corpus_statistics[i].label).texts
                    snaps == corpus_statistics[i].snapshots
                IN /\ DOMAIN snaps = DOMAIN texts
                   /\ \A k \in DOMAIN texts : SnapshotOf(snaps[k], texts[k])

\* A snapshot of two sentences counting a long word that is not polysyllabic
\* and a polysyllabic word that is not long.
C6_Witness ==
    /\ HasAttr("statistics")
    /\ content = << <<"Il", "est", "content">>, <<"animal", "elephant">> >>
    /\ statistics.totalLongWords = 2
    /\ statistics.nbPolysyllables = 2

(***************************************************************************)
(* C7, as stated. Compiling [["Le","chat","mange"], ["Il","est","content"]]*)
(* yields totalWords = 6, totalSentences = 2, totalCharacters = 24 and     *)
(* totalLongWords = 0.                                                     *)
(***************************************************************************)
C7_ExampleAsStated ==
    (IsTextSession /\ content = TheExampleText /\ HasAttr("statistics")) =>
        /\ statistics.totalWords = 6
        /\ statistics.totalSentences = 2
        /\ statistics.totalCharacters = 24
        /\ statistics.totalLongWords = 0

(***************************************************************************)
(* C7, amended. Compiling [["Le","chat","mange"], ["Il","est","content"]]  *)
(* yields totalWords = 6, totalSentences = 2, totalCharacters = 23 and     *)
(* totalLongWords = 1: "content" has 7 characters.                         *)
(***************************************************************************)
C7_ExampleAmended ==
    (IsTextSession /\ content = TheExampleText /\ HasAttr("statistics")) =>
        /\ statistics.totalWords = 6
        /\ statistics.totalSentences = 2
        /\ statistics.totalCharacters = 23
        /\ statistics.totalLongWords = 1

\* The example text, given as a nested list, has been compiled.
C7_Witness ==
    /\ IsTextSession
    /\ arg = NestedInput(TheExampleText)
    /\ content = TheExampleText
    /\ HasAttr("statistics")
    /\ ret.op = "compile"

(***************************************************************************)
(* C8. Constructing a session from an input that matches none of the       *)
(* accepted shapes (string, flat token list, nested list of sentences,     *)
(* depth-4 class -> text -> sentence -> token mapping) ends in a failure   *)
(* that aborts the construction; it never yields a session whose content   *)
(* and content type are unset. The code returns such a session for a       *)
(* mapping whose first value is not a list of lists of lists, and for a    *)
(* tuple.                                                                  *)
(***************************************************************************)
\* Every value of the mapping is a list of texts.
DepthFourMapping(d) ==
    /\ d # <<>>
    /\ \A j \in DOMAIN d : d[j].kind = "texts"

AcceptedShape(a) ==
    \/ a.shape \in {"str", "flat", "nested"}
    \/ a.shape = "dict" /\ DepthFourMapping(a.entries)

C8_UnrecognizedShapeFails ==
    /\ (pc # "start" /\ ~AcceptedShape(arg)) => pc = "failed"
    /\ Ready => (HasAttr("content") /\ HasAttr("content_type"))

(***************************************************************************)
(* C9. Constructing a session from an empty string or from an empty list   *)
(* is an explicit failure: it does not produce a session. With the NLP     *)
(* engine loaded the code returns a session of type "text" whose content   *)
(* is the empty list.                                                      *)
(***************************************************************************)
EmptyInput(a) == a = StrInput(<<>>) \/ a = FlatInput(<<>>)

C9_EmptyInputFails ==
    (pc # "start" /\ EmptyInput(arg)) => pc = "failed"

C11_FailureRecordedPerText ==
    (IsCorpusSession /\ Scored /\ ret.op \in {"score", "gfi"}
        /\ \E p \in TextIndices : ZeroCounts(TextAt(p))) =>
        /\ ret.kind = "mapping"
        /\ Keys(ret.mapping) = Keys(content)
        /\ \A i \in DOMAIN ret.mapping :
                Len(ret.mapping[i].scores) = Len(content[i].texts)

(***************************************************************************)
(* C12. In every state of a constructed session the content-type tag is    *)
(* set and is one of the two values "text" and "corpus". The constructor   *)
(* also returns, without the tag, for an input of no accepted shape.       *)
(***************************************************************************)
C12_ContentTypeIsTextOrCorpus ==
    Ready => (HasAttr("content_type") /\ content_type \in {"text", "corpus"})

(***************************************************************************)
(* C13, as stated. stats() on a session that was never compiled reports    *)
(* the statistics of the content, computed on demand.                      *)
(***************************************************************************)
C13_StatsComputedOnDemand ==
    (Ready /\ ret.op = "stats" /\ ~compiled) =>
        ret.out \in {"statistics", "corpus_statistics"}

(***************************************************************************)
(* C13, amended. stats() on a session that was never compiled does not     *)
(* fail and computes nothing: it returns None after printing that          *)
(* compile() has to be applied first, and the session still holds no       *)
(* snapshot.                                                               *)
(***************************************************************************)
C13_StatsAsksForCompile ==
    (Ready /\ ret.op = "stats" /\ ~compiled) =>
        /\ ret.kind = "None"
        /\ ret.out = "apply compile first"
        /\ ~HasSnapshot

\* stats() has been called on an uncompiled single-text session.
C13_Witness ==
    /\ IsTextSession
    /\ ~compiled
    /\ content = TheExampleText
    /\ ret.op = "stats"
    /\ ret.out = "apply compile first"

(***************************************************************************)
(* C15. A call that reaches the Score Engine hands it the held snapshot    *)
(* exactly when the session holds one: score(name), the dedicated          *)
(* accessors and scores() pass the snapshot in the compiled state and the  *)
(* text alone in the uncompiled state. In the code scores() passes the     *)
(* content alone in both states.                                           *)
(***************************************************************************)
C15_SnapshotPassedIffCompiled ==
    (Ready /\ ret.op \in ScoringOps \cup {"scores"} /\ ret.engine # "none") =>
        (ret.engine = "snapshot" <=> HasSnapshot)

(***************************************************************************)
(* C14. When the count of eligible tokens is zero, type_token_ratio and    *)
(* noun_token_ratio print a warning and return a sentinel that no valid    *)
(* ratio can equal (a ratio over at least one token is positive), and that *)
(* sentinel is one and the same value in every mode, in both functions and *)
(* in both diversity modules. In the code one module returns -1 and the    *)
(* other returns 0.                                                        *)
(***************************************************************************)
C14_OneSentinel ==
    /\ (div_ret.fn # "none" /\ div_ret.nb_tokens = 0) =>
            /\ div_ret.kind = "sentinel"
            /\ div_ret.warning
            /\ div_ret.num <= 0
    /\ Cardinality(div_sentinels) <= 1

(***************************************************************************)
(* C16. Once compile() has run on a corpus, and in every later state of    *)
(* the session, the snapshot mapping has exactly the classes of the corpus *)
(* as its keys, in their order, and under each class one snapshot per text *)
(* of that class, the k-th snapshot being that of the k-th text.           *)
(***************************************************************************)
C16_SnapshotMappingAligned ==
    HasAttr("corpus_statistics") =>
        /\ Keys(corpus_statistics) = classes
        /\ Keys(corpus_statistics) = Keys(content)
        /\ \A i \in DOMAIN corpus_statistics :
                /\ Len(corpus_statistics[i].snapshots) = Len(content[i].texts)
                /\ \A k \in DOMAIN content[i].texts :
                        SnapshotOf(corpus_statistics[i].snapshots[k], content[i].texts[k])

\* The compiled corpus {"A": [text1, text2], "B": [text3]}, text2 without
\* sentences, after a later call of score().
C16_Witness ==
    /\ IsCorpusSession
    /\ HasAttr("corpus_statistics")
    /\ Len(content) = 2
    /\ Len(content[1].texts) = 2
    /\ content[1].texts[1] # <<>>
    /\ content[1].texts[2] = <<>>
    /\ Len(content[2].texts) = 1
    /\ ret.op = "score"

(***************************************************************************)
(* C17. The session owns its content: once it is constructed, a change the *)
(* caller makes to the object it passed to the constructor does not change *)
(* the content of the session. In the code a list of sentences and a       *)
(* mapping are stored as they are, so the caller's change is the session's *)
(* as well.                                                                *)
(***************************************************************************)
C17_ContentOwned ==
    [][(pc = "ready" /\ arg' # arg) => content' = content]_vars

(***************************************************************************)
(* C18. For a string and for a flat list of tokens, with the NLP engine    *)
(* loaded, construction completes and the short-text warning is printed    *)
(* exactly when the text has fewer than 100 words: both shapes apply that  *)
(* one rule to the number of words of the text. In the code the string     *)
(* branch warns below 101 and the token-list branch compares the sum of    *)
(* the squared sentence lengths.                                           *)
(***************************************************************************)
C18_WarningBelowHundredWords ==
    (pc # "start" /\ arg.shape \in {"str", "flat"} /\ NlpLoaded) =>
        /\ pc = "ready"
        /\ warned <=> SumSeq([i \in DOMAIN content |-> Len(content[i])]) < 100

(***************************************************************************)
(* C19. In a single-text session every element of the content is a         *)
(* sequence of tokens and none is a raw string: a list that mixes sentence *)
(* lists with bare strings is not taken as it is as the text. In the code  *)
(* one list among the elements is enough for the whole list to be stored   *)
(* unchanged.                                                              *)
(***************************************************************************)
C19_NoRawStringInText ==
    /\ IsTextSession =>
            { i \in DOMAIN content : arg.shape = "mixed" /\ i > Len(arg.text) } = {}
    /\ (pc # "start" /\ arg.shape = "mixed") =>
            ~(pc = "ready" /\ HasAttr("content") /\ content = ListOf(arg))

(***************************************************************************)
(* C20. In a corpus session every class, not only the first, maps to a     *)
(* non-empty list of texts, each text a list of sentences of tokens, and   *)
(* the class list is the list of the mapping's keys in order; a mapping in *)
(* which some class is not of that depth does not become a corpus session. *)
(* In the code only the value of the first key is looked at.               *)
(***************************************************************************)
C20_EveryClassWellFormed ==
    /\ IsCorpusSession =>
            /\ classes = Keys(content)
            /\ \A j \in DOMAIN content :
                    content[j].kind = "texts" /\ content[j].texts # <<>>
    /\ (arg.shape = "dict" /\ \E j \in DOMAIN arg.entries : arg.entries[j].kind # "texts")
            => ~IsCorpusSession

(***************************************************************************)
(* C21. A call of score(name), gfi(), ari(), fre(), fkgl(), smog(), rel(), *)
(* scores(), stats() or corpus_info() leaves the content, the content      *)
(* type, the class list and the held snapshots of the session as they      *)
(* were, whether it returns or raises; and a snapshot, once held, changes  *)
(* only in a step of compile().                                            *)
(***************************************************************************)
C21_ReadsLeaveSessionUnchanged ==
    [][/\ (ret'.op \in ScoringOps \cup {"scores", "stats", "corpus_info"}) =>
            /\ content' = content
            /\ content_type' = content_type
            /\ classes' = classes
            /\ statistics' = statistics
            /\ corpus_statistics' = corpus_statistics
            /\ attrs' = attrs
       /\ (statistics' # statistics \/ corpus_statistics' # corpus_statistics
                \/ attrs' \cap {"statistics", "corpus_statistics"}
                        # attrs \cap {"statistics", "corpus_statistics"}) =>
            ret'.op = "compile"]_vars

\* corpus_info() has returned its frame on a compiled corpus of two classes.
C21_Witness ==
    /\ IsCorpusSession
    /\ HasAttr("corpus_statistics")
    /\ Len(classes) = 2
    /\ ret.op = "corpus_info"
    /\ ret.kind = "frame"

====
